---------------------------- MODULE Spec2Model ----------------------------
(***************************************************************************)
(* Model of bulletpointchatbot.py, a Streamlit script that asks the Gemini *)
(* API for resume bullet points and renders the reply as an HTML list.     *)
(*                                                                         *)
(* A Python str is modelled as a sequence of one-character strings, so     *)
(* that strip, lstrip, split and join are computed character by character. *)
(* A Streamlit script is re-executed from its first line on every user     *)
(* interaction; one execution is the chain                                 *)
(*   Startup -> RenderForm -> (NotSubmitted | SubmitInvalid | SubmitValid) *)
(* and Rerun starts the next execution.                                    *)
(***************************************************************************)
EXTENDS Naturals, Sequences, FiniteSets

VARIABLES
    env_key,          \* os.environ.get("GEMINI_API_KEY") of the process
    pc,               \* position of the script execution
    API_KEY,          \* module global, line 9
    MODEL_NAME,       \* module global, line 14
    form_rendered,    \* the form of lines 77-91 is on the page
    submitted,        \* st.form_submit_button(...), line 91
    user_name,        \* st.text_input, line 79
    job_title,        \* st.text_input, line 80
    skills_input,     \* st.text_area, line 85
    skills_list,      \* line 96
    reply,            \* what the remote service answered in this execution
    requests,         \* remote calls issued in this execution
    calls,            \* remote calls issued since the process started
    bullets,          \* line 103
    bullet_html,      \* lines 109-120
    results_rendered, \* st.markdown(bullet_html), line 122
    error_shown,      \* which st.error(...) is on the page
    runs              \* script executions started so far

vars == <<env_key, pc, API_KEY, MODEL_NAME, form_rendered, submitted, user_name,
          job_title, skills_input, skills_list, reply, requests, calls, bullets,
          bullet_html, results_rendered, error_shown, runs>>

----------------------------------------------------------------------------
(* Bounds of the model.                                                    *)

\* longest skills text typed into the text area
MaxSkillsLen == 3
\* longest response text enumerated for the formatter
MaxTextLen == 4
\* script executions per behaviour
MaxRuns == 3

----------------------------------------------------------------------------
(* Python str methods.                                                     *)

\* characters str.strip() removes (a subset of Python's whitespace)
Whitespace == {" ", "\n", "\t"}

\* "sup2" stands for the one character U+00B2 (superscript two): str.isdigit()
\* is true of it although it is none of 0123456789.
AsciiDigits == {"0", "1", "2", "3", "4", "5", "6", "7", "8", "9"}

isdigit(c) == c \in AsciiDigits \cup {"sup2"}

RECURSIVE lstrip(_, _)
lstrip(s, chars) ==
    IF s = <<>> THEN <<>>
    ELSE IF Head(s) \in chars THEN lstrip(Tail(s), chars)
    ELSE s

RECURSIVE rstrip(_, _)
rstrip(s, chars) ==
    IF s = <<>> THEN <<>>
    ELSE IF s[Len(s)] \in chars THEN rstrip(SubSeq(s, 1, Len(s) - 1), chars)
    ELSE s

strip(s) == rstrip(lstrip(s, Whitespace), Whitespace)

\* s.split(sep) for a one-character sep: always at least one piece
RECURSIVE split(_, _)
split(s, sep) ==
    IF \A i \in 1..Len(s) : s[i] # sep THEN <<s>>
    ELSE LET i == CHOOSE k \in 1..Len(s) :
                      s[k] = sep /\ \A j \in 1..(k - 1) : s[j] # sep
         IN  <<SubSeq(s, 1, i - 1)>> \o split(SubSeq(s, i + 1, Len(s)), sep)

\* sep.join(list)
RECURSIVE join(_, _)
join(sep, list) ==
    IF list = <<>> THEN <<>>
    ELSE IF Len(list) = 1 THEN list[1]
    ELSE list[1] \o sep \o join(sep, Tail(list))

----------------------------------------------------------------------------
(* String literals of the script.                                          *)

system_prompt ==
    <<"Y", "o", "u", " ", "a", "r", "e", " ", "a", "n", " ", "e", "x", "p",
      "e", "r", "t", " ", "c", "a", "r", "e", "e", "r", " ", "c", "o", "a",
      "c", "h", " ", "s", "p", "e", "c", "i", "a", "l", "i", "z", "i", "n",
      "g", " ", "i", "n", " ", "h", "i", "g", "h", "-", "i", "m", "p", "a",
      "c", "t", " ", "r", "e", "s", "u", "m", "e", " ", "w", "r", "i", "t",
      "i", "n", "g", ".", " ", "Y", "o", "u", "r", " ", "t", "a", "s", "k",
      " ", "i", "s", " ", "t", "o", " ", "g", "e", "n", "e", "r", "a", "t",
      "e", " ", "5", " ", "p", "o", "w", "e", "r", "f", "u", "l", ",", " ",
      "j", "o", "b", "-", "s", "p", "e", "c", "i", "f", "i", "c", " ", "r",
      "e", "s", "u", "m", "e", " ", "b", "u", "l", "l", "e", "t", " ", "p",
      "o", "i", "n", "t", "s", ".", " ", "E", "a", "c", "h", " ", "b", "u",
      "l", "l", "e", "t", " ", "M", "U", "S", "T", " ", "s", "t", "a", "r",
      "t", " ", "w", "i", "t", "h", " ", "a", " ", "s", "t", "r", "o", "n",
      "g", " ", "a", "c", "t", "i", "o", "n", " ", "v", "e", "r", "b", " ",
      "(", "p", "a", "s", "t", " ", "t", "e", "n", "s", "e", ")", ",", " ",
      "q", "u", "a", "n", "t", "i", "f", "y", " ", "r", "e", "s", "u", "l",
      "t", "s", ",", " ", "a", "n", "d", " ", "f", "o", "l", "l", "o", "w",
      " ", "t", "h", "e", " ", "S", "T", "A", "R", " ", "m", "e", "t", "h",
      "o", "d", " ", "(", "S", "i", "t", "u", "a", "t", "i", "o", "n", ",",
      " ", "T", "a", "s", "k", ",", " ", "A", "c", "t", "i", "o", "n", ",",
      " ", "R", "e", "s", "u", "l", "t", ")", " ", "f", "o", "r", "m", "a",
      "t", " ", "w", "h", "e", "r", "e", " ", "p", "o", "s", "s", "i", "b",
      "l", "e", ".", " ", "T", "h", "e", " ", "o", "u", "t", "p", "u", "t",
      " ", "M", "U", "S", "T", " ", "b", "e", " ", "a", " ", "c", "l", "e",
      "a", "n", ",", " ", "u", "n", "f", "o", "r", "m", "a", "t", "t", "e",
      "d", " ", "l", "i", "s", "t", " ", "o", "f", " ", "e", "x", "a", "c",
      "t", "l", "y", " ", "5", " ", "b", "u", "l", "l", "e", "t", " ", "p",
      "o", "i", "n", "t", "s", ",", " ", "s", "e", "p", "a", "r", "a", "t",
      "e", "d", " ", "b", "y", " ", "n", "e", "w", "l", "i", "n", "e", "s",
      ".">>

prompt_head ==
    <<"\n", " ", " ", " ", " ", "G", "e", "n", "e", "r", "a", "t", "e", " ",
      "t", "h", "e", " ", "5", " ", "r", "e", "s", "u", "m", "e", " ", "b",
      "u", "l", "l", "e", "t", " ", "p", "o", "i", "n", "t", "s", " ", "f",
      "o", "r", " ", "t", "h", "e", " ", "f", "o", "l", "l", "o", "w", "i",
      "n", "g", " ", "p", "r", "o", "f", "i", "l", "e", ":", "\n", " ", " ",
      " ", " ", "-", " ", "T", "a", "r", "g", "e", "t", " ", "J", "o", "b",
      " ", "T", "i", "t", "l", "e", ":", " ">>

prompt_skills ==
    <<"\n", " ", " ", " ", " ", "-", " ", "K", "e", "y", " ", "S", "k", "i",
      "l", "l", "s", " ", "t", "o", " ", "E", "m", "p", "h", "a", "s", "i",
      "z", "e", ":", " ">>

prompt_name ==
    <<"\n", " ", " ", " ", " ", "-", " ", "A", "p", "p", "l", "i", "c", "a",
      "n", "t", " ", "N", "a", "m", "e", " ", "(", "f", "o", "r", " ", "c",
      "o", "n", "t", "e", "x", "t", ")", ":", " ">>

prompt_tail ==
    <<"\n", " ", " ", " ", " ">>

fallback_name ==
    <<"A", "n", " ", "e", "x", "p", "e", "r", "i", "e", "n", "c", "e", "d",
      " ", "p", "r", "o", "f", "e", "s", "s", "i", "o", "n", "a", "l">>

api_error_prefix ==
    <<"A", "n", " ", "A", "P", "I", " ", "E", "r", "r", "o", "r", " ", "o",
      "c", "c", "u", "r", "r", "e", "d", ":", " ", "P", "l", "e", "a", "s",
      "e", " ", "c", "h", "e", "c", "k", " ", "y", "o", "u", "r", " ", "A",
      "P", "I", " ", "k", "e", "y", " ", "o", "r", " ", "n", "e", "t", "w",
      "o", "r", "k", " ", "s", "t", "a", "t", "u", "s", ".", " ", "D", "e",
      "t", "a", "i", "l", "s", ":", " ">>

unexpected_prefix ==
    <<"A", "n", " ", "u", "n", "e", "x", "p", "e", "c", "t", "e", "d", " ",
      "e", "r", "r", "o", "r", " ", "o", "c", "c", "u", "r", "r", "e", "d",
      ":", " ">>

NoneTextDetail ==
    <<"'", "N", "o", "n", "e", "T", "y", "p", "e", "'", " ", "o", "b", "j",
      "e", "c", "t", " ", "h", "a", "s", " ", "n", "o", " ", "a", "t", "t",
      "r", "i", "b", "u", "t", "e", " ", "'", "s", "t", "r", "i", "p", "'">>

NameErrorDetail ==
    <<"n", "a", "m", "e", " ", "'", "M", "O", "D", "E", "L", "_", "N", "A",
      "M", "E", "'", " ", "i", "s", " ", "n", "o", "t", " ", "d", "e", "f",
      "i", "n", "e", "d">>

----------------------------------------------------------------------------
(* Response texts and list items of the worked examples.                   *)

ExampleText ==
    <<"1", ".", " ", "D", "i", "d", " ", "X", "\n", "-", " ", "D", "i", "d",
      " ", "Y", "\n", "\n", "*", " ", "D", "i", "d", " ", "Z">>

DoublePrefixText ==
    <<"1", ".", " ", "-", " ", "D", "i", "d", " ", "X">>

DidX ==
    <<"D", "i", "d", " ", "X">>

DidY ==
    <<"D", "i", "d", " ", "Y">>

DidZ ==
    <<"D", "i", "d", " ", "Z">>

ResidualDidX ==
    <<"-", " ", "D", "i", "d", " ", "X">>

----------------------------------------------------------------------------
(* Values of the configuration globals.                                    *)

\* os.environ.get returns None when the variable is not set
None == "<None>"
\* a module global that no statement has assigned yet
Unbound == "<unbound>"
GeminiFlash == "gemini-2.5-flash"

\* truth value of `if API_KEY:` (None and the empty string are falsy)
truthy(key) == key # None /\ key # ""

EnvKeys == {None, "", "secret-key"}

\* max_chars of the name input
max_chars == 100
max_output_tokens == 512
temperature == "0.7"

----------------------------------------------------------------------------
(* generate_resume_bullets.                                                *)

\* user_prompt with the name interpolated as given, no fallback phrase
user_prompt_no_fallback(name, title, skills) ==
    prompt_head \o title
        \o prompt_skills \o join(<<",", " ">>, skills)
        \o prompt_name \o name
        \o prompt_tail

\* the f-string of lines 42-47
user_prompt(name, title, skills) ==
    prompt_head \o title
        \o prompt_skills \o join(<<",", " ">>, skills)
        \o prompt_name \o (IF name # <<>> THEN name ELSE fallback_name)
        \o prompt_tail

\* the arguments of genai.generate_content, lines 51-59
request(model, contents) ==
    [model |-> model, contents |-> contents, system_instruction |-> system_prompt,
     temperature |-> temperature, max_output_tokens |-> max_output_tokens]

\* A reply of the remote call: kind "text" carries response.text; kind "no_text"
\* is a response whose .text is None, so that .strip() raises AttributeError;
\* kind "api_error" is a raised APIError and kind "exception" any other raised
\* Exception; detail is str(e).
TextReply(t) == [kind |-> "text", text |-> t, detail |-> <<>>]
NoTextReply == [kind |-> "no_text", text |-> <<>>, detail |-> NoneTextDetail]
ErrorReply(k, d) == [kind |-> k, text |-> <<>>, detail |-> d]
NoReply == [kind |-> "none", text |-> <<>>, detail |-> <<>>]

\* the exception the try block of lines 50-61 ends with, "" when it returns
raised_in_try(model, r) ==
    IF model = Unbound THEN "NameError"
    ELSE CASE r.kind = "text" -> ""
           [] r.kind = "no_text" -> "AttributeError"
           [] r.kind = "api_error" -> "APIError"
           [] OTHER -> "Exception"

\* handle with the `except Exception` clause missing
handle_api_error_only(exc, detail) ==
    IF exc = "APIError"
    THEN [raised |-> FALSE, value |-> <<api_error_prefix \o detail>>]
    ELSE [raised |-> TRUE, value |-> <<>>]

\* the except clauses of lines 63-66: the message returned, or raised |-> TRUE
\* when no clause matches
handle(exc, detail) ==
    IF exc = "APIError"
    THEN [raised |-> FALSE, value |-> <<api_error_prefix \o detail>>]
    ELSE [raised |-> FALSE, value |-> <<unexpected_prefix \o detail>>]

\* generate_resume_bullets calling the remote service a second time when the
\* first call failed
generate_resume_bullets_retry(name, title, skills, model, r) ==
    LET exc == raised_in_try(model, r)
        sent == IF model = Unbound THEN <<>>
                ELSE <<request(model, user_prompt(name, title, skills))>>
    IN  IF exc = ""
        THEN [raised |-> FALSE, requests |-> sent,
              value |-> split(strip(r.text), "\n")]
        ELSE [raised |-> FALSE, requests |-> sent \o sent,
              value |-> handle(exc, r.detail).value]

\* lines 26-66; model is the global MODEL_NAME, r the remote service's reply.
\* requests is what reached the remote service: nothing when evaluating
\* MODEL_NAME already raised NameError.
generate_resume_bullets(name, title, skills, model, r) ==
    LET exc == raised_in_try(model, r)
        sent == IF model = Unbound THEN <<>>
                ELSE <<request(model, user_prompt(name, title, skills))>>
    IN  IF exc = ""
        THEN [raised |-> FALSE, requests |-> sent,
              value |-> split(strip(r.text), "\n")]
        ELSE LET h == handle(exc, IF exc = "NameError" THEN NameErrorDetail
                                  ELSE r.detail)
             IN  [raised |-> h.raised, requests |-> sent, value |-> h.value]

----------------------------------------------------------------------------
(* The submitted branch.                                                   *)

\* line 96: [s.strip() for s in skills_input.split('\n') if s.strip()]
RECURSIVE stripped_nonblank(_)
stripped_nonblank(parts) ==
    IF parts = <<>> THEN <<>>
    ELSE IF strip(Head(parts)) # <<>>
         THEN <<strip(Head(parts))>> \o stripped_nonblank(Tail(parts))
         ELSE stripped_nonblank(Tail(parts))

\* parse_skills keeping each non-blank line as typed: [s for s in ... if s.strip()]
RECURSIVE nonblank_unstripped(_)
nonblank_unstripped(parts) ==
    IF parts = <<>> THEN <<>>
    ELSE IF strip(Head(parts)) # <<>>
         THEN <<Head(parts)>> \o nonblank_unstripped(Tail(parts))
         ELSE nonblank_unstripped(Tail(parts))

parse_skills_no_strip(text) == nonblank_unstripped(split(text, "\n"))

parse_skills(text) == stripped_nonblank(split(text, "\n"))

\* validation_fails with `and` in place of `or`
validation_fails_and(title, skills) == title = <<>> /\ skills = <<>>

\* line 98
validation_fails(title, skills) == title = <<>> \/ skills = <<>>

\* cleaned_bullet without the digit-prefix pass of lines 115-116
cleaned_bullet_no_digits(bullet) == strip(lstrip(strip(bullet), {"-", "*"}))

\* cleaned_bullet stripping markers and numbering until neither is left
RECURSIVE cleaned_bullet_repeated(_)
cleaned_bullet_repeated(bullet) ==
    LET c == strip(lstrip(strip(bullet), {"-", "*"}))
        d == IF c # <<>> /\ isdigit(c[1])
             THEN strip(lstrip(c, AsciiDigits \cup {".", " "}))
             ELSE c
    IN  IF d = bullet THEN d ELSE cleaned_bullet_repeated(d)

\* lines 112-116
cleaned_bullet(bullet) ==
    LET c1 == strip(bullet)
        c2 == strip(lstrip(c1, {"-", "*"}))
    IN  IF c2 # <<>> /\ isdigit(c2[1])
        THEN strip(lstrip(c2, AsciiDigits \cup {".", " "}))
        ELSE c2

\* list_item without the `if cleaned_bullet:` guard
list_item_always(cleaned) == <<"<li>">> \o cleaned \o <<"</li>">>

\* lines 118-119; a tag is modelled as one element of the sequence
list_item(cleaned) ==
    IF cleaned # <<>> THEN <<"<li>">> \o cleaned \o <<"</li>">> ELSE <<>>

\* loop_html prepending each item instead of appending it
RECURSIVE loop_html_reversed(_)
loop_html_reversed(bs) ==
    IF bs = <<>> THEN <<>>
    ELSE loop_html_reversed(Tail(bs)) \o list_item(cleaned_bullet(Head(bs)))

\* the loop of lines 110-119
RECURSIVE loop_html(_)
loop_html(bs) ==
    IF bs = <<>> THEN <<>>
    ELSE list_item(cleaned_bullet(Head(bs))) \o loop_html(Tail(bs))

\* lines 109-120
render_bullets(bs) == <<"<ul>">> \o loop_html(bs) \o <<"</ul>">>

----------------------------------------------------------------------------
(* Inputs.                                                                 *)

\* all sequences over alphabet of length at most n
RECURSIVE StringsUpTo(_, _)
StringsUpTo(alphabet, n) ==
    IF n = 0 THEN {<<>>}
    ELSE LET shorter == StringsUpTo(alphabet, n - 1)
         IN  shorter \cup {Append(s, c) : s \in shorter, c \in alphabet}

Names == {<<>>, <<"A", "l">>}
Titles == {<<>>, <<" ">>, <<"Q", "A">>}
SkillsInputs == StringsUpTo({" ", "\n", "a", "b"}, MaxSkillsLen)

Details == {<<"4", "0", "3">>, <<"t", "i", "m", "e", "d", " ", "o", "u", "t", "\n">>}
AppTexts == {<<>>, <<" ", "\n">>, <<"x">>, ExampleText, DoublePrefixText}
Replies ==
    {TextReply(t) : t \in AppTexts} \cup {NoTextReply}
        \cup {ErrorReply(k, d) : k \in {"api_error", "exception"}, d \in Details}

FmtTexts ==
    StringsUpTo({" ", "\n", "-", "*", "1", ".", "x", "sup2"}, MaxTextLen)
        \cup {ExampleText, DoublePrefixText}

----------------------------------------------------------------------------
(* The script.                                                             *)

Init ==
    /\ env_key \in EnvKeys
    /\ pc = "start"
    /\ API_KEY = Unbound
    /\ MODEL_NAME = Unbound
    /\ form_rendered = FALSE
    /\ submitted = FALSE
    /\ user_name = <<>>
    /\ job_title = <<>>
    /\ skills_input = <<>>
    /\ skills_list = <<>>
    /\ reply = NoReply
    /\ requests = <<>>
    /\ calls = 0
    /\ bullets = <<>>
    /\ bullet_html = <<>>
    /\ results_rendered = FALSE
    /\ error_shown = "none"
    /\ runs = 1

\* Startup reporting the missing key without st.stop()
Startup_no_stop ==
    /\ pc = "start"
    /\ API_KEY' = env_key
    /\ \/ /\ truthy(env_key)
          /\ MODEL_NAME' = GeminiFlash
          /\ pc' = "ui"
          /\ UNCHANGED error_shown
       \/ /\ truthy(env_key)
          /\ error_shown' = "configure_failed"
          /\ pc' = "stopped"
          /\ UNCHANGED MODEL_NAME
       \/ /\ ~truthy(env_key)
          /\ error_shown' = "key_not_found"
          /\ pc' = "ui"
          /\ UNCHANGED MODEL_NAME
    /\ UNCHANGED <<env_key, form_rendered, submitted, user_name, job_title,
                   skills_input, skills_list, reply, requests, calls, bullets,
                   bullet_html, results_rendered, runs>>

\* lines 9-20.  genai.configure is a call into the client library: it returns
\* or raises.
Startup ==
    /\ pc = "start"
    /\ API_KEY' = env_key
    /\ \/ /\ truthy(env_key)
          /\ MODEL_NAME' = GeminiFlash
          /\ pc' = "ui"
          /\ UNCHANGED error_shown
       \/ /\ truthy(env_key)
          /\ error_shown' = "configure_failed"
          /\ pc' = "stopped"
          /\ UNCHANGED MODEL_NAME
       \/ /\ ~truthy(env_key)
          /\ error_shown' = "key_not_found"
          /\ pc' = "stopped"
          /\ UNCHANGED MODEL_NAME
    /\ UNCHANGED <<env_key, form_rendered, submitted, user_name, job_title,
                   skills_input, skills_list, reply, requests, calls, bullets,
                   bullet_html, results_rendered, runs>>

\* lines 72-91: the widgets return what the user entered.  The button is
\* pressed only on a form that an earlier execution rendered; the execution
\* that opens the page has empty widgets.
RenderForm ==
    /\ pc = "ui"
    /\ form_rendered' = TRUE
    /\ \/ /\ submitted' = FALSE
          /\ user_name' = <<>>
          /\ job_title' = <<>>
          /\ skills_input' = <<>>
       \/ /\ runs > 1
          /\ submitted' = TRUE
          /\ user_name' \in {n \in Names : Len(n) <= max_chars}
          /\ job_title' \in Titles
          /\ skills_input' \in SkillsInputs
    /\ pc' = "process"
    /\ UNCHANGED <<env_key, API_KEY, MODEL_NAME, skills_list, reply, requests,
                   calls, bullets, bullet_html, results_rendered, error_shown, runs>>

\* line 94, condition false: the script ends
NotSubmitted ==
    /\ pc = "process"
    /\ ~submitted
    /\ pc' = "idle"
    /\ UNCHANGED <<env_key, API_KEY, MODEL_NAME, form_rendered, submitted,
                   user_name, job_title, skills_input, skills_list, reply,
                   requests, calls, bullets, bullet_html, results_rendered,
                   error_shown, runs>>

\* lines 94-99
SubmitInvalid ==
    /\ pc = "process"
    /\ submitted
    /\ skills_list' = parse_skills(skills_input)
    /\ validation_fails(job_title, skills_list')
    /\ error_shown' = "validation"
    /\ pc' = "idle"
    /\ UNCHANGED <<env_key, API_KEY, MODEL_NAME, form_rendered, submitted,
                   user_name, job_title, skills_input, reply, requests, calls,
                   bullets, bullet_html, results_rendered, runs>>

\* lines 94-123 with the else branch taken
SubmitValid ==
    /\ pc = "process"
    /\ submitted
    /\ skills_list' = parse_skills(skills_input)
    /\ ~validation_fails(job_title, skills_list')
    /\ \E r \in Replies :
          LET g == generate_resume_bullets(user_name, job_title, skills_list',
                                           MODEL_NAME, r)
          IN  /\ reply' = (IF g.requests = <<>> THEN NoReply ELSE r)
              /\ requests' = g.requests
              /\ calls' = calls + Len(g.requests)
              /\ IF g.raised
                 THEN /\ pc' = "crashed"
                      /\ UNCHANGED <<bullets, bullet_html, results_rendered>>
                 ELSE /\ bullets' = g.value
                      /\ bullet_html' = render_bullets(g.value)
                      /\ results_rendered' = TRUE
                      /\ pc' = IF MODEL_NAME = Unbound THEN "crashed" ELSE "idle"
    /\ UNCHANGED <<env_key, API_KEY, MODEL_NAME, form_rendered, submitted,
                   user_name, job_title, skills_input, error_shown, runs>>

\* The next user interaction (pressing the button, reloading the page) makes
\* Streamlit execute the script again from line 1 with a cleared page.
Rerun ==
    /\ pc \in {"idle", "stopped", "crashed"}
    /\ runs < MaxRuns
    /\ runs' = runs + 1
    /\ pc' = "start"
    /\ API_KEY' = Unbound
    /\ MODEL_NAME' = Unbound
    /\ form_rendered' = FALSE
    /\ submitted' = FALSE
    /\ user_name' = <<>>
    /\ job_title' = <<>>
    /\ skills_input' = <<>>
    /\ skills_list' = <<>>
    /\ reply' = NoReply
    /\ requests' = <<>>
    /\ bullets' = <<>>
    /\ bullet_html' = <<>>
    /\ results_rendered' = FALSE
    /\ error_shown' = "none"
    /\ UNCHANGED <<env_key, calls>>

Next ==
    \/ Startup
    \/ RenderForm
    \/ NotSubmitted
    \/ SubmitInvalid
    \/ SubmitValid
    \/ Rerun

Spec == Init /\ [][Next]_vars

----------------------------------------------------------------------------
(* The formatter alone: generate_resume_bullets' success path and the      *)
(* rendering loop applied to every response text of FmtTexts, in two steps *)
(* so that the returned sequence is a state of its own.                    *)

FmtInit ==
    /\ env_key = "secret-key"
    /\ pc = "fmt_call"
    /\ API_KEY = "secret-key"
    /\ MODEL_NAME = GeminiFlash
    /\ form_rendered = TRUE
    /\ submitted = TRUE
    /\ user_name = <<>>
    /\ job_title = <<"Q", "A">>
    /\ skills_input = <<"a">>
    /\ skills_list = <<<<"a">>>>
    /\ reply \in {TextReply(t) : t \in FmtTexts}
    /\ requests = <<>>
    /\ calls = 0
    /\ bullets = <<>>
    /\ bullet_html = <<>>
    /\ results_rendered = FALSE
    /\ error_shown = "none"
    /\ runs = 2

\* line 103
FmtReturn ==
    /\ pc = "fmt_call"
    /\ LET g == generate_resume_bullets(user_name, job_title, skills_list,
                                        MODEL_NAME, reply)
       IN  /\ requests' = g.requests
           /\ calls' = calls + Len(g.requests)
           /\ bullets' = g.value
    /\ pc' = "fmt_returned"
    /\ UNCHANGED <<env_key, API_KEY, MODEL_NAME, form_rendered, submitted,
                   user_name, job_title, skills_input, skills_list, reply,
                   bullet_html, results_rendered, error_shown, runs>>

\* lines 109-122
FmtRender ==
    /\ pc = "fmt_returned"
    /\ bullet_html' = render_bullets(bullets)
    /\ results_rendered' = TRUE
    /\ pc' = "fmt_rendered"
    /\ UNCHANGED <<env_key, API_KEY, MODEL_NAME, form_rendered, submitted,
                   user_name, job_title, skills_input, skills_list, reply,
                   requests, calls, bullets, error_shown, runs>>

FmtNext ==
    \/ FmtReturn
    \/ FmtRender

FmtSpec == FmtInit /\ [][FmtNext]_vars

----------------------------------------------------------------------------
(* Vocabulary of the properties.  These operators say what a result should *)
(* be by position, without the recursion the script's operators use.       *)

\* the k-th smallest element of a finite set of numbers
Kth(S, k) == CHOOSE x \in S : Cardinality({y \in S : y < x}) = k - 1

\* s without its leading and trailing whitespace
Trimmed(s) ==
    LET I == {i \in 1..Len(s) : s[i] \notin Whitespace}
    IN  IF I = {} THEN <<>>
        ELSE SubSeq(s, Kth(I, 1), Kth(I, Cardinality(I)))

\* s without its leading run of characters of cs
WithoutLeading(s, cs) ==
    LET I == {i \in 1..Len(s) : s[i] \notin cs}
    IN  IF I = {} THEN <<>> ELSE SubSeq(s, Kth(I, 1), Len(s))

\* the lines of s: the pieces between consecutive newlines
LinesOf(s) ==
    LET NL == {i \in 1..Len(s) : s[i] = "\n"}
        n == Cardinality(NL)
        first(k) == IF k = 1 THEN 1 ELSE Kth(NL, k - 1) + 1
        last(k) == IF k = n + 1 THEN Len(s) ELSE Kth(NL, k) - 1
    IN  [k \in 1..(n + 1) |-> SubSeq(s, first(k), last(k))]

\* the non-empty elements of a sequence of strings, in their order
NonEmptyOnes(T) ==
    LET I == {i \in 1..Len(T) : T[i] # <<>>}
    IN  [k \in 1..Cardinality(I) |-> T[Kth(I, k)]]

\* the elements of a sequence of strings separated by ", ", built from the right
RECURSIVE CommaJoined(_)
CommaJoined(l) ==
    IF l = <<>> THEN <<>>
    ELSE IF Len(l) = 1 THEN l[1]
    ELSE CommaJoined(SubSeq(l, 1, Len(l) - 1)) \o <<",", " ">> \o l[Len(l)]

\* sub occurs in s
Contains(s, sub) ==
    /\ Len(sub) <= Len(s)
    /\ \E i \in 0..(Len(s) - Len(sub)) : SubSeq(s, i + 1, i + Len(sub)) = sub

\* the contents of the <li> elements of a markup, as a browser lists them
RECURSIVE ListItems(_)
ListItems(html) ==
    IF html = <<>> THEN <<>>
    ELSE IF Head(html) = "<li>"
    THEN LET rest == Tail(html)
             n == CHOOSE k \in 1..Len(rest) :
                      rest[k] = "</li>" /\ \A j \in 1..(k - 1) : rest[j] # "</li>"
         IN  <<SubSeq(rest, 1, n - 1)>> \o ListItems(SubSeq(rest, n + 1, Len(rest)))
    ELSE ListItems(Tail(html))

\* the cleanup of one line as section 4.2 of the specification words it
CleanedLine(l) ==
    LET a == Trimmed(WithoutLeading(Trimmed(l), {"-", "*"}))
    IN  IF a # <<>> /\ a[1] \in AsciiDigits
        THEN Trimmed(WithoutLeading(a, AsciiDigits \cup {".", " "}))
        ELSE a

\* trim, split on newline, clean each line, drop the empty ones
ExpectedItems(text) ==
    LET lines == LinesOf(Trimmed(text))
    IN  NonEmptyOnes([k \in 1..Len(lines) |-> CleanedLine(lines[k])])

\* the submission passes the validation of the form
RequiredFieldsFilled ==
    /\ job_title # <<>>
    /\ \E i \in 1..Len(skills_input) : skills_input[i] \notin Whitespace

FailureKinds == {"no_text", "api_error", "exception"}

----------------------------------------------------------------------------
(* Properties.                                                             *)

\* C1: a submission whose job title is empty, or whose skills text has no
\* line that is non-blank after trimming, issues no remote call, shows the
\* validation error and renders no result list.
C1_NoCallOnInvalidSubmission ==
    [][(pc = "process" /\ submitted /\ ~RequiredFieldsFilled)
          => /\ calls' = calls
             /\ requests' = <<>>
             /\ error_shown' = "validation"
             /\ ~results_rendered'
             /\ bullet_html' = <<>>]_vars

\* a second submission, with an empty job title and a skill, rejected after a
\* first one that called the remote service
C1_Witness ==
    /\ pc = "idle"
    /\ submitted
    /\ job_title = <<>>
    /\ skills_list # <<>>
    /\ error_shown = "validation"
    /\ calls = 1
    /\ runs = 3

\* C2: when the remote call fails (APIError, any other exception, or a
\* response whose text cannot be processed) generate_resume_bullets raises
\* nothing and returns exactly one string, which contains the text of the
\* failure and is rendered as the one list item.
C2_FailureReturnedAsOneString ==
    (pc # "process" /\ reply.kind \in FailureKinds)
        => /\ pc = "idle"
           /\ Len(bullets) = 1
           /\ Contains(bullets[1], reply.detail)
           /\ results_rendered
           /\ Len(ListItems(bullet_html)) = 1
           /\ Contains(ListItems(bullet_html)[1], Trimmed(reply.detail))

\* a response without text, turned into the one-line message
C2_Witness ==
    /\ pc = "idle"
    /\ reply.kind = "no_text"
    /\ bullets = <<unexpected_prefix \o NoneTextDetail>>
    /\ ListItems(bullet_html) = bullets

\* C3: with GEMINI_API_KEY missing or empty, or the client configuration
\* failing, the script reports it and halts before the form: no submission
\* is accepted and no remote call issued; a remote call is issued only with
\* the credential and MODEL_NAME set.
C3_HaltsWithoutConfiguration ==
    /\ ~truthy(env_key) => pc \in {"start", "stopped"}
    /\ error_shown \in {"key_not_found", "configure_failed"} => pc = "stopped"
    /\ pc = "stopped"
          => /\ error_shown \in {"key_not_found", "configure_failed"}
             /\ ~form_rendered
             /\ ~submitted
             /\ requests = <<>>
    /\ form_rendered => API_KEY \notin {Unbound, None, ""} /\ MODEL_NAME # Unbound
    /\ requests # <<>>
          => /\ API_KEY \notin {Unbound, None, ""}
             /\ MODEL_NAME = GeminiFlash
             /\ requests[1].model = GeminiFlash

\* the script halted on an empty credential, again after a reload
C3_Witness ==
    /\ pc = "stopped"
    /\ env_key = ""
    /\ error_shown = "key_not_found"
    /\ runs = 2
    /\ calls = 0

\* C4 as stated: every string generate_resume_bullets returns is non-empty.
C4_ReturnedStringsNonEmpty ==
    pc = "fmt_returned" => \A i \in 1..Len(bullets) : bullets[i] # <<>>

\* C4 amended: generate_resume_bullets returns the lines of the trimmed text
\* as split, empty ones included; every list item rendered from them is
\* non-empty, the lines empty after cleanup being dropped by the rendering
\* loop, and the remaining ones keep their order.
C4_RenderedItemsNonEmpty ==
    pc = "fmt_rendered"
        => /\ bullets = LinesOf(Trimmed(reply.text))
           /\ \A i \in 1..Len(ListItems(bullet_html)) :
                  ListItems(bullet_html)[i] # <<>>
           /\ ListItems(bullet_html)
                  = NonEmptyOnes([i \in 1..Len(bullets) |-> cleaned_bullet(bullets[i])])

\* a text with a blank line between two bullets: three strings returned, the
\* empty one among them, two items rendered
C4_Witness ==
    /\ pc = "fmt_rendered"
    /\ reply.text = <<"x", "\n", "\n", "-">>
    /\ bullets = <<<<"x">>, <<>>, <<"-">>>>
    /\ ListItems(bullet_html) = <<<<"x">>>>

\* C5: the list items rendered are the result of: trim the text, split on
\* newline, per line trim, strip the leading '-'/'*' run, trim, strip the
\* leading run of digits, '.' and spaces if a digit comes first, trim, drop
\* the empty lines; "1. Did X\n- Did Y\n\n* Did Z" gives Did X, Did Y, Did Z.
C5_RenderedItemsArePipeline ==
    pc = "fmt_rendered"
        => /\ ListItems(bullet_html) = ExpectedItems(reply.text)
           /\ reply.text = ExampleText
                  => ListItems(bullet_html) = <<DidX, DidY, DidZ>>

C5_Witness ==
    /\ pc = "fmt_rendered"
    /\ reply.text = ExampleText
    /\ Len(bullets) = 4
    /\ ListItems(bullet_html) = <<DidX, DidY, DidZ>>

\* C6: a response text that is empty or only whitespace gives no bullet.
C6_BlankTextGivesNoBullet ==
    (pc = "fmt_rendered" /\ \A i \in 1..Len(reply.text) : reply.text[i] \in Whitespace)
        => /\ ListItems(bullet_html) = <<>>
           /\ bullet_html = <<"<ul>", "</ul>">>

C6_Witness ==
    /\ pc = "fmt_rendered"
    /\ reply.text = <<" ", "\n", " ">>
    /\ bullets = <<<<>>>>
    /\ ListItems(bullet_html) = <<>>

\* C7: the user message of a remote call contains the job title, the skills
\* joined by ", " in their order, and the name, or 'An experienced
\* professional' when the name is empty.
C7_UserMessageEmbedsProfile ==
    requests # <<>>
        => /\ job_title # <<>>
           /\ skills_list # <<>>
           /\ Contains(requests[1].contents, job_title)
           /\ Contains(requests[1].contents, CommaJoined(skills_list))
           /\ Contains(requests[1].contents,
                       IF user_name # <<>> THEN user_name ELSE fallback_name)

C7_Witness ==
    /\ requests # <<>>
    /\ user_name = <<>>
    /\ job_title = <<"Q", "A">>
    /\ skills_list = <<<<"b">>, <<"a">>>>
    /\ Contains(requests[1].contents, <<"b", ",", " ", "a">>)
    /\ Contains(requests[1].contents, fallback_name)

\* C8: the skills sequence is the lines of the skills text, each trimmed, the
\* blank ones dropped, order and duplicates kept; when a remote call is
\* issued it is non-empty and each element is non-empty without leading or
\* trailing whitespace.
C8_SkillsAreTrimmedNonBlankLines ==
    /\ (pc \in {"idle", "crashed"} /\ submitted)
          => skills_list
                = NonEmptyOnes([k \in 1..Len(LinesOf(skills_input)) |->
                                   Trimmed(LinesOf(skills_input)[k])])
    /\ requests # <<>>
          => /\ skills_list # <<>>
             /\ \A i \in 1..Len(skills_list) :
                    /\ skills_list[i] # <<>>
                    /\ skills_list[i][1] \notin Whitespace
                    /\ skills_list[i][Len(skills_list[i])] \notin Whitespace

\* a padded skill after a blank line
C8_Witness ==
    /\ requests # <<>>
    /\ skills_input = <<"\n", " ", "a">>
    /\ skills_list = <<<<"a">>>>

\* C9: a submission that passes validation issues exactly one remote call,
\* one that fails issues none, nothing else issues a call (no retry), and
\* once the outcome is rendered the form is there for the next submission.
C9_OneCallPerValidSubmission ==
    /\ [][/\ (pc = "process" /\ submitted)
                => /\ IF RequiredFieldsFilled
                      THEN calls' = calls + 1 /\ Len(requests') = 1
                      ELSE calls' = calls /\ requests' = <<>>
                   /\ pc' = "idle"
          /\ ~(pc = "process" /\ submitted) => calls' = calls]_vars
    /\ [](pc = "idle" => form_rendered /\ (runs < MaxRuns => ENABLED Rerun))

\* a failed call after an earlier submission's call: two calls in all
C9_Witness ==
    /\ pc = "idle"
    /\ reply.kind = "api_error"
    /\ Len(requests) = 1
    /\ calls = 2

\* C10: the cleanup strips the marker run once and the digit prefix once
\* afterwards: a line whose numbering comes before a marker keeps the marker;
\* "1. - Did X" is rendered as "- Did X".
C10_TwoPassCleanupLeavesMarker ==
    /\ (pc = "fmt_rendered" /\ reply.text = DoublePrefixText)
          => ListItems(bullet_html) = <<ResidualDidX>>
    /\ (/\ pc = "fmt_rendered"
        /\ Len(reply.text) >= 2
        /\ reply.text[1] \in AsciiDigits
        /\ reply.text[2] \in {"-", "*"}
        /\ \A i \in 1..Len(reply.text) : reply.text[i] # "\n")
          => ListItems(bullet_html)
                = <<SubSeq(Trimmed(reply.text), 2, Len(Trimmed(reply.text)))>>

C10_Witness ==
    /\ pc = "fmt_rendered"
    /\ reply.text = DoublePrefixText
    /\ bullets = <<DoublePrefixText>>
    /\ ListItems(bullet_html) = <<ResidualDidX>>

============================================================================
